---- MODULE Spec2Model ----
(***************************************************************************)
(* ImagePPM (src/lib.rs): a width x height grid of RGB pixels with         *)
(* bounds-checked access (get, get_mut), two rasterisers (draw_line,       *)
(* draw_circle) and a plain-text PPM rendering (fmt::Display).             *)
(*                                                                         *)
(* The model is a caller driving one image: Init is ImagePPM::new, one     *)
(* action per operation draws the arguments and runs the whole body of the *)
(* operation, and Return is the caller going on to its next call.  A panic *)
(* (unwrap on None) ends the program: no call follows it.                  *)
(*                                                                         *)
(* f64 arithmetic.  On the coordinates of this model every f64 quantity    *)
(* that decides a branch or a cast is decided by exact integer arithmetic: *)
(*   t <= sqrt(n)            iff  t*t <= n                                 *)
(*   sqrt(n) < r             iff  n < r*r                                  *)
(*   (a + d*(t/sqrt(n))) as usize  =  floor of the real value              *)
(* (sqrt and the four operations are correctly rounded, and the real       *)
(* values are either integers reached exactly or irrationals far from an   *)
(* integer).  0.0/0.0 is NaN, NaN propagates through * and +, and          *)
(* `NaN as usize` is 0 (saturating float-to-int cast).                     *)
(***************************************************************************)
EXTENDS Integers, Sequences, FiniteSets

\* Largest width and height constructed; coordinates range over 0..MaxDim,
\* so every buffer sees in-bounds and out-of-bounds coordinates.
MaxDim == 2
\* Largest radius passed to draw_circle.
MaxRadius == 2
\* Number of mutating calls (get_mut write, draw_line, draw_circle) a run makes.
MaxOps == 2

VARIABLES
    width,      \* ImagePPM.width
    height,     \* ImagePPM.height
    pixels,     \* ImagePPM.pixels, index i of the Vec is pixels[i+1]
    bg,         \* the bg_color given to new (ghost)
    dims,       \* the <<width, height>> given to new (ghost)
    panicked,   \* TRUE once an unwrap on None has ended the program
    pc,         \* "idle" | "returned": the caller's position
    call,       \* the call that has just returned: operation and arguments
    old,        \* pixels when that call started (ghost)
    ret,        \* the Option returned by get / get_mut
    out,        \* the text produced by Display::fmt, one entry per line
    mutations   \* number of mutating calls made so far

vars == <<width, height, pixels, bg, dims, panicked, pc, call, old, ret, out, mutations>>

----------------------------------------------------------------------------
\* Pixel, Coord, Option

Pixel(r, g, b) == [r |-> r, g |-> g, b |-> b]
RED == Pixel(255, 0, 0)
UNIT == Pixel(1, 1, 1)
Colors == {RED, UNIT}

Coord(x, y) == [x |-> x, y |-> y]
Coords == {Coord(x, y) : x \in 0..MaxDim, y \in 0..MaxDim}

None == [some |-> FALSE]
Some(v) == [some |-> TRUE, val |-> v]

Abs(i) == IF i < 0 THEN -i ELSE i

----------------------------------------------------------------------------
\* ImagePPM::new, get, get_mut

new(w, h, bg_color) == [i \in 1..(w * h) |-> bg_color]

\* get: Some(pixel) or None when out of bounds.
get(px, w, h, x, y) ==
    IF x >= w \/ y >= h THEN None
    ELSE LET i == x + (h - y - 1) * w IN Some(px[i + 1])

\* get_mut with the row not flipped: i = x + y*width.
get_mut_unflipped(w, h, x, y) ==
    IF x >= w \/ y >= h THEN None
    ELSE LET i == x + y * w IN Some(i)

\* get_mut with the row stride forgotten: i = x + (height - y - 1).
get_mut_no_stride(w, h, x, y) ==
    IF x >= w \/ y >= h THEN None
    ELSE LET i == x + (h - y - 1) IN Some(i)

\* get_mut: Some(i), the slot of the Vec the reference points at, or None.
get_mut(w, h, x, y) ==
    IF x >= w \/ y >= h THEN None
    ELSE LET i == x + (h - y - 1) * w IN Some(i)

\* A write that pushes the colour instead of overwriting the slot.
Store_push(px, slot, col) == Append(px, col)

\* `*slot = col` through the reference get_mut returned.
Store(px, slot, col) == [px EXCEPT ![slot.val + 1] = col]

\* A paint that skips an out-of-bounds point instead of unwrapping.
PaintAt_skip(st, w, h, x, y, col) ==
    IF st.panicked THEN st
    ELSE LET slot == get_mut(w, h, x, y) IN
         IF slot = None THEN st
         ELSE [px |-> Store(st.px, slot, col), panicked |-> FALSE]

\* `*self.get_mut(x, y).unwrap() = col`: a panic on None. st is the image
\* inside a running operation: its pixels and whether it has panicked.
PaintAt(st, w, h, x, y, col) ==
    IF st.panicked THEN st
    ELSE LET slot == get_mut(w, h, x, y) IN
         IF slot = None THEN [px |-> st.px, panicked |-> TRUE]
         ELSE [px |-> Store(st.px, slot, col), panicked |-> FALSE]

----------------------------------------------------------------------------
\* ImagePPM::draw_line

\* `(a + d*(t/dist)) as usize` with dist = sqrt(n): NaN (n = 0) casts to 0,
\* otherwise the floor of a + d*t/sqrt(n), saturating at 0.
Interp(a, d, t, n) ==
    IF n = 0 THEN 0
    ELSE LET q == d * d * t * t
             fl == CHOOSE k \in 0..(Abs(d) * t) :
                       k * k * n <= q /\ (k + 1) * (k + 1) * n > q
             cl == CHOOSE k \in 0..(Abs(d) * t) :
                       k * k * n >= q /\ (k = 0 \/ (k - 1) * (k - 1) * n < q)
         IN IF d >= 0 THEN a + fl
            ELSE IF cl > a THEN 0 ELSE a - cl

\* dist*dist: the radicand of `dist` in draw_line.
Dist2(a, b) == (a.x - b.x) * (a.x - b.x) + (a.y - b.y) * (a.y - b.y)

\* The point painted at step t of the loop.
LinePoint(a, b, t) ==
    Coord(Interp(a.x, b.x - a.x, t, Dist2(a, b)),
          Interp(a.y, b.y - a.y, t, Dist2(a, b)))

\* The loop running one step too far: `while t <= dist + 1.0`.
RECURSIVE LineLoop_overrun(_, _, _, _, _, _, _)
LineLoop_overrun(st, w, h, a, b, col, t) ==
    IF t = 0 \/ (t - 1) * (t - 1) <= Dist2(a, b)
    THEN LET p == LinePoint(a, b, t)
         IN LineLoop_overrun(PaintAt(st, w, h, p.x, p.y, col), w, h, a, b, col, t + 1)
    ELSE st

\* `while t <= dist { paint the interpolated point; t += 1.0 }`
RECURSIVE LineLoop(_, _, _, _, _, _, _)
LineLoop(st, w, h, a, b, col, t) ==
    IF t * t <= Dist2(a, b)
    THEN LET p == LinePoint(a, b, t)
         IN LineLoop(PaintAt(st, w, h, p.x, p.y, col), w, h, a, b, col, t + 1)
    ELSE st

\* draw_line without the final write of the endpoint b.
draw_line_no_endpoint(px, w, h, a, b, col) ==
    LineLoop([px |-> px, panicked |-> FALSE], w, h, a, b, col, 0)

draw_line(px, w, h, a, b, col) ==
    PaintAt(LineLoop([px |-> px, panicked |-> FALSE], w, h, a, b, col, 0),
            w, h, b.x, b.y, col)

----------------------------------------------------------------------------
\* Coord::abs, Coord::distance, ImagePPM::draw_circle

\* Coord::abs is sqrt(abs2): the radicand is kept, the root is taken where
\* the value is compared.
abs2(c) == c.x * c.x + c.y * c.y

\* Coord::distance is sqrt(distance2): |ax-bx| and |ay-by| in isize.
distance2(p, rhs) == abs2(Coord(Abs(p.x - rhs.x), Abs(p.y - rhs.y)))

\* The comparison with <= instead of <.
InsideCircle_inclusive(p, center, radius) == distance2(p, center) <= radius * radius

\* `p.distance(center) < radius as f64`
InsideCircle(p, center, radius) == distance2(p, center) < radius * radius

\* `for y in 0..height { for x in 0..width { ... } }`, k = y*width + x
RECURSIVE CircleLoop(_, _, _, _, _, _, _)
CircleLoop(st, w, h, center, radius, col, k) ==
    IF k >= w * h THEN st
    ELSE LET x == k % w
             y == k \div w
             nx == IF InsideCircle(Coord(x, y), center, radius)
                   THEN PaintAt(st, w, h, x, y, col)
                   ELSE st
         IN CircleLoop(nx, w, h, center, radius, col, k + 1)

draw_circle(px, w, h, center, radius, col) ==
    CircleLoop([px |-> px, panicked |-> FALSE], w, h, center, radius, col, 0)

----------------------------------------------------------------------------
\* impl fmt::Display for ImagePPM

DigitChar == <<"0", "1", "2", "3", "4", "5", "6", "7", "8", "9">>

\* format!("{}", n) of an unsigned integer
RECURSIVE Decimal(_)
Decimal(n) ==
    IF n < 10 THEN DigitChar[n + 1]
    ELSE Decimal(n \div 10) \o DigitChar[(n % 10) + 1]

\* format!("{}", n): no field width.
PadLeft3_none(s) == s

\* format!("{:3}", n): right-aligned in a field of three characters
RECURSIVE PadLeft3(_)
PadLeft3(s) == IF Len(s) >= 3 THEN s ELSE PadLeft3(" " \o s)

Field3(n) == PadLeft3(Decimal(n))

\* format!("{:3} {:3} {:3}\n", pixel.r, pixel.g, pixel.b), without the "\n"
PixelLine(p) == Field3(p.r) \o " " \o Field3(p.g) \o " " \o Field3(p.b)

\* The rendering with the rows emitted bottom row first.
fmt_bottom_up(px, w, h) ==
    <<"P3", Decimal(w) \o " " \o Decimal(h), "255">>
        \o [i \in 1..Len(px) |->
               PixelLine(px[(h - 1 - ((i - 1) \div w)) * w + ((i - 1) % w) + 1])]

\* The rendered text as its sequence of lines (each ends in "\n" in the
\* String): the three header lines, then one line per entry of the Vec.
fmt(px, w, h) ==
    <<"P3", Decimal(w) \o " " \o Decimal(h), "255">>
        \o [i \in 1..Len(px) |-> PixelLine(px[i])]

----------------------------------------------------------------------------
\* The caller and the operations

NoCall == [op |-> "none", a |-> Coord(0, 0), b |-> Coord(0, 0), radius |-> 0, col |-> RED]

\* ImagePPM::new(width, height, bg_color)
Init ==
    /\ width \in 0..MaxDim
    /\ height \in 0..MaxDim
    /\ bg \in Colors
    /\ dims = <<width, height>>
    /\ pixels = new(width, height, bg)
    /\ panicked = FALSE
    /\ pc = "idle"
    /\ call = NoCall
    /\ old = <<>>
    /\ ret = None
    /\ out = <<>>
    /\ mutations = 0

\* A call may start: the caller is between calls and the program is alive.
CanCall == pc = "idle" /\ ~panicked

\* let r = img.get(a.x, a.y)
Get ==
    /\ CanCall
    /\ \E a \in Coords :
          /\ call' = [NoCall EXCEPT !.op = "get", !.a = a]
          /\ ret' = get(pixels, width, height, a.x, a.y)
    /\ pc' = "returned"
    /\ old' = pixels
    /\ UNCHANGED <<width, height, pixels, bg, dims, panicked, out, mutations>>

\* if let Some(p) = img.get_mut(a.x, a.y) { *p = col }
GetMut ==
    /\ CanCall
    /\ mutations < MaxOps
    /\ \E a \in Coords, col \in Colors :
          LET slot == get_mut(width, height, a.x, a.y)
          IN /\ call' = [NoCall EXCEPT !.op = "get_mut", !.a = a, !.col = col]
             /\ ret' = slot
             /\ pixels' = IF slot = None THEN pixels ELSE Store(pixels, slot, col)
    /\ pc' = "returned"
    /\ old' = pixels
    /\ mutations' = mutations + 1
    /\ UNCHANGED <<width, height, bg, dims, panicked, out>>

\* img.draw_line(a, b, col)
DrawLine ==
    /\ CanCall
    /\ mutations < MaxOps
    /\ \E a \in Coords, b \in Coords, col \in Colors :
          LET st == draw_line(pixels, width, height, a, b, col)
          IN /\ call' = [NoCall EXCEPT !.op = "draw_line", !.a = a, !.b = b, !.col = col]
             /\ pixels' = st.px
             /\ panicked' = st.panicked
    /\ pc' = "returned"
    /\ old' = pixels
    /\ mutations' = mutations + 1
    /\ UNCHANGED <<width, height, bg, dims, ret, out>>

\* img.draw_circle(a, radius, col)
DrawCircle ==
    /\ CanCall
    /\ mutations < MaxOps
    /\ \E a \in Coords, radius \in 0..MaxRadius, col \in Colors :
          LET st == draw_circle(pixels, width, height, a, radius, col)
          IN /\ call' = [NoCall EXCEPT !.op = "draw_circle", !.a = a,
                                       !.radius = radius, !.col = col]
             /\ pixels' = st.px
             /\ panicked' = st.panicked
    /\ pc' = "returned"
    /\ old' = pixels
    /\ mutations' = mutations + 1
    /\ UNCHANGED <<width, height, bg, dims, ret, out>>

\* format!("{}", img)
Fmt ==
    /\ CanCall
    /\ call' = [NoCall EXCEPT !.op = "fmt"]
    /\ out' = fmt(pixels, width, height)
    /\ pc' = "returned"
    /\ old' = pixels
    /\ UNCHANGED <<width, height, pixels, bg, dims, panicked, ret, mutations>>

\* The caller takes the result and goes on; the returned values are dropped.
Return ==
    /\ pc = "returned"
    /\ pc' = "idle"
    /\ call' = NoCall
    /\ old' = <<>>
    /\ ret' = None
    /\ out' = <<>>
    /\ UNCHANGED <<width, height, pixels, bg, dims, panicked, mutations>>

Next == Get \/ GetMut \/ DrawLine \/ DrawCircle \/ Fmt \/ Return

Spec == Init /\ [][Next]_vars

----------------------------------------------------------------------------
\* Vocabulary of the properties

InBounds(c) == c.x < width /\ c.y < height
Cells == {c \in Coords : InBounds(c)}
Now(c) == get(pixels, width, height, c.x, c.y)
Before(c) == get(old, width, height, c.x, c.y)
Returned(op) == pc = "returned" /\ call.op = op
Sq(i) == i * i
InRect(c, a, b) ==
    /\ (a.x <= c.x /\ c.x <= b.x) \/ (b.x <= c.x /\ c.x <= a.x)
    /\ (a.y <= c.y /\ c.y <= b.y) \/ (b.y <= c.y /\ c.y <= a.y)

\* The text of a pixel line and of a dimension, written out.
LineOf(p) == IF p = RED THEN "255   0   0" ELSE "  1   1   1"
DimText(n) == <<"0", "1", "2", "3", "4", "5", "6", "7", "8", "9">>[n + 1]

----------------------------------------------------------------------------
\* C1: a colour written through get_mut(x,y) at an in-bounds coordinate is
\* what get(x,y) returns afterwards; at an out-of-bounds coordinate get and
\* get_mut return None, nothing is written and nothing panics.
C1_GetAfterGetMut ==
    /\ Returned("get_mut") =>
          IF InBounds(call.a)
          THEN ret # None /\ Now(call.a) = Some(call.col) /\ ~panicked
          ELSE ret = None /\ Now(call.a) = None /\ pixels = old /\ ~panicked
    /\ Returned("get") =>
          IF InBounds(call.a)
          THEN ret # None /\ ~panicked
          ELSE ret = None /\ ~panicked

\* C1 happens: an in-bounds write through get_mut changed the cell.
C1_Witness ==
    /\ Returned("get_mut")
    /\ InBounds(call.a)
    /\ Before(call.a) # Some(call.col)
    /\ Now(call.a) = Some(call.col)

\* C2: draw_line(a, a, color) with a in bounds paints the cell at a and
\* leaves every other cell unchanged (the zero-length segment is a
\* single-point draw).
C2_ZeroLengthLineOneCell ==
    Returned("draw_line") /\ call.a = call.b /\ InBounds(call.a) =>
        /\ ~panicked
        /\ Now(call.a) = Some(call.col)
        /\ \A c \in Cells : c # call.a => Now(c) = Before(c)

\* C3: after draw_line(a, b, color) with a and b in bounds returns, the cell
\* at b holds color.
C3_EndpointPainted ==
    Returned("draw_line") /\ InBounds(call.a) /\ InBounds(call.b) /\ ~panicked =>
        Now(call.b) = Some(call.col)

\* C3 happens: a line between distinct in-bounds points returned and changed
\* the cell at b.
C3_Witness ==
    /\ Returned("draw_line")
    /\ InBounds(call.a) /\ InBounds(call.b) /\ call.a # call.b
    /\ ~panicked
    /\ Before(call.b) # Some(call.col)
    /\ Now(call.b) = Some(call.col)

C5_RowsTopDown ==
    Returned("fmt") =>
        /\ Len(out) = 3 + width * height
        /\ \A k \in 0..(width * height - 1) :
              Some(pixels[k + 1]) = Now(Coord(k % width, height - 1 - (k \div width)))
              /\ out[4 + k] = LineOf(Now(Coord(k % width, height - 1 - (k \div width))).val)
        /\ (width >= 1 /\ height >= 1) =>
              out[3 + (height - 1) * width + 1] = LineOf(Now(Coord(0, 0)).val)

\* C5 happens: a buffer of two rows or more whose bottom-left cell differs
\* from its top-left cell was rendered.
C5_Witness ==
    /\ Returned("fmt")
    /\ width >= 2 /\ height >= 2
    /\ Now(Coord(0, 0)) # Now(Coord(0, height - 1))
    /\ Now(Coord(0, 0)) # Now(Coord(1, 0))

\* C6: a buffer that was never mutated renders to "P3", "<W> <H>", "255"
\* and then width*height lines holding the background's channels.
C6_FreshBufferRendering ==
    Returned("fmt") /\ mutations = 0 =>
        out = <<"P3", DimText(width) \o " " \o DimText(height), "255">>
                  \o [i \in 1..(width * height) |-> LineOf(bg)]

\* C6 happens: a fresh buffer of several cells was rendered.
C6_Witness ==
    /\ Returned("fmt")
    /\ mutations = 0
    /\ width >= 2 /\ height >= 2
    /\ bg = UNIT

\* C7: as long as no call has panicked, the pixel sequence has width*height
\* entries and width and height are the values given to new.
C7_LengthAndDimsFixed ==
    ~panicked => /\ Len(pixels) = width * height
                 /\ <<width, height>> = dims

\* C7 happens: a second mutating call, a draw_line, completed on a buffer an
\* earlier call had already changed, and changed it again.
C7_Witness ==
    /\ Returned("draw_line")
    /\ mutations >= 2
    /\ ~panicked
    /\ old # new(width, height, bg)
    /\ pixels # old

\* C8: draw_line panics whenever a point it is to paint, an interpolated
\* point of the loop or the endpoint b, lies outside the buffer.
C8_OutOfBoundsPointPanics ==
    Returned("draw_line") =>
        ((\/ ~InBounds(call.b)
          \/ \E t \in 0..(2 * MaxDim) :
                /\ t * t <= Dist2(call.a, call.b)
                /\ ~InBounds(LinePoint(call.a, call.b, t)))
            => panicked)

\* C8 happens: a line from an in-bounds a to an out-of-bounds b painted
\* cells and then panicked.
C8_Witness ==
    /\ Returned("draw_line")
    /\ InBounds(call.a) /\ ~InBounds(call.b)
    /\ pixels # old
    /\ panicked

\* C9: with width, height >= 1 and distinct in-bounds endpoints, draw_line
\* does not panic, changes only cells of the bounding rectangle of a and b,
\* and paints the cell at a.
C9_LineInsideBoundingRectangle ==
    (/\ Returned("draw_line")
     /\ width >= 1 /\ height >= 1
     /\ call.a # call.b
     /\ InBounds(call.a) /\ InBounds(call.b)) =>
        /\ ~panicked
        /\ \A c \in Cells : Now(c) # Before(c) => InRect(c, call.a, call.b)
        /\ Now(call.a) = Some(call.col)

\* C9 happens: a diagonal line between in-bounds points changed both ends.
C9_Witness ==
    /\ Returned("draw_line")
    /\ InBounds(call.a) /\ InBounds(call.b)
    /\ call.a.x # call.b.x /\ call.a.y # call.b.y
    /\ Before(call.a) # Some(call.col) /\ Now(call.a) = Some(call.col)
    /\ Before(call.b) # Some(call.col) /\ Now(call.b) = Some(call.col)

\* C10: in-bounds coordinates map one-to-one onto the slots 0..width*height-1
\* (i = x + (height-y-1)*width), so an in-bounds write through get_mut(x,y)
\* leaves get(x',y') unchanged at every other in-bounds coordinate.
C10_WriteChangesOneCell ==
    Returned("get_mut") /\ InBounds(call.a) =>
        /\ ret = Some(call.a.x + (height - call.a.y - 1) * width)
        /\ \A c \in Cells : c # call.a => Now(c) = Before(c)
        /\ \A c, d \in Cells :
              c # d => get_mut(width, height, c.x, c.y) # get_mut(width, height, d.x, d.y)
        /\ {get_mut(width, height, c.x, c.y).val : c \in Cells} = 0..(width * height - 1)

\* C10 happens: an in-bounds write on a buffer of several cells, some of
\* them already of another colour than the background, changed a cell.
C10_Witness ==
    /\ Returned("get_mut")
    /\ InBounds(call.a)
    /\ width >= 2 /\ height >= 2
    /\ Now(call.a) # Before(call.a)
    /\ \E c \in Cells : c # call.a /\ Now(c) # Now(call.a)

====
